---------------------------- MODULE Spec2Model ----------------------------
(***************************************************************************)
(* Model of the aoc25 puzzle solvers: the day02 repeated-block id          *)
(* classifier and range aggregator (src/src/bin/day02.rs) and the day01    *)
(* dial (src/src/bin/day01.rs).                                            *)
(*                                                                         *)
(* The programs compute on u64 and u32 machine integers.  TLC's integers   *)
(* are 32-bit signed, so a machine integer is modelled as the sequence of  *)
(* its decimal digits, least significant first and without leading zeros   *)
(* (zero is the empty sequence).  The arithmetic below (+, -, /, %, pow,   *)
(* ilog10, comparisons) is the arithmetic of natural numbers on that       *)
(* representation; the machine width enters where the code's operations    *)
(* can overflow.                                                           *)
(***************************************************************************)
EXTENDS Integers, Sequences, FiniteSets, TLC

\* TLC evaluates recursive operators on a small stack, so the arithmetic is
\* written with as little recursion as it allows: carries by lookahead,
\* division by a power of ten as a shift of the decimal digits.

\* ------------------------------------------------------------------------
\* Natural numbers as little-endian decimal digit sequences
\* ------------------------------------------------------------------------

Zero == << >>

\* Digit k of a (1 is the units digit); 0 beyond the most significant one.
DigitAt(a, k) == IF k <= Len(a) THEN a[k] ELSE 0

\* Drop leading zeros (the most significant digits are at the end).
Norm(a) ==
    LET nz == {k \in 1..Len(a) : a[k] # 0}
    IN  IF nz = {} THEN << >>
        ELSE SubSeq(a, 1, CHOOSE m \in nz : \A k \in nz : k <= m)

RECURSIVE N(_)
\* The machine integer with native value n.
N(n) == IF n = 0 THEN << >> ELSE <<n % 10>> \o N(n \div 10)

RECURSIVE Val(_)
\* The native value of a machine integer small enough to have one.
Val(a) == IF a = << >> THEN 0 ELSE a[1] + 10 * Val(Tail(a))

Rev(s) == SubSeq([i \in 1..Len(s) |-> s[Len(s) + 1 - i]], 1, Len(s))

\* The machine integer written as the decimal digit string s (most
\* significant digit first).
Dec(s) == Norm(Rev(s))

\* The decimal digit string of a (most significant digit first); "0" for 0.
Str(a) == IF a = << >> THEN <<0>> ELSE Rev(a)

Less(a, b) ==
    \/ Len(a) < Len(b)
    \/ /\ Len(a) = Len(b)
       /\ \E i \in 1..Len(a) :
            /\ a[i] < b[i]
            /\ \A j \in (i + 1)..Len(a) : a[j] = b[j]

Leq(a, b) == ~Less(b, a)

\* a + b: position k receives a carry iff some lower position j generates
\* one and every position between j and k passes it on.
Add(a, b) ==
    LET n == IF Len(a) > Len(b) THEN Len(a) ELSE Len(b)
        carry(k) ==
            IF \E j \in 1..(k - 1) :
                 /\ DigitAt(a, j) + DigitAt(b, j) >= 10
                 /\ \A m \in (j + 1)..(k - 1) :
                      DigitAt(a, m) + DigitAt(b, m) = 9
            THEN 1 ELSE 0
    IN  Norm([k \in 1..(n + 1) |->
                (DigitAt(a, k) + DigitAt(b, k) + carry(k)) % 10])

\* a - b for a >= b: position k lends iff some lower position j borrows and
\* every position between j and k passes the borrow on.
Sub(a, b) ==
    LET borrow(k) ==
            IF \E j \in 1..(k - 1) :
                 /\ DigitAt(a, j) < DigitAt(b, j)
                 /\ \A m \in (j + 1)..(k - 1) :
                      DigitAt(a, m) = DigitAt(b, m)
            THEN 1 ELSE 0
    IN  Norm([k \in 1..Len(a) |->
                (DigitAt(a, k) - DigitAt(b, k) - borrow(k) + 10) % 10])

\* a * 10^k.
Mul10(a, k) == IF a = << >> THEN a ELSE [i \in 1..k |-> 0] \o a

\* b is a power of ten.
IsPow10(b) ==
    /\ b # << >>
    /\ b[Len(b)] = 1
    /\ \A i \in 1..(Len(b) - 1) : b[i] = 0

RECURSIVE QDigit(_, _, _)
\* Long division, one quotient digit: how often b fits into r (at most 9
\* times), with what is left.
QDigit(r, b, q) ==
    IF Less(r, b) THEN [q |-> q, r |-> r] ELSE QDigit(Sub(r, b), b, q + 1)

\* Long division, one step: from the quotient and remainder hi of the
\* digits above the units digit d to those of the whole number.
LongDivStep(hi, d, b) ==
    LET s == QDigit(Norm(<<d>> \o hi.r), b, 0)
    IN  [q |-> Norm(<<s.q>> \o hi.q), r |-> s.r]

RECURSIVE LongDiv(_, _)
\* Quotient and remainder of a by b # 0, by long division: with
\* a = 10 * hi + a[1], the quotient and remainder of hi give those of a.
\* (The singleton sets bind hi to its value before the step uses it.)
LongDiv(a, b) ==
    IF a = << >> THEN [q |-> << >>, r |-> << >>]
    ELSE CHOOSE res \in {LongDivStep(hi, Head(a), b) :
                           hi \in {LongDiv(Tail(a), b)}} : TRUE

\* Quotient and remainder of a by b # 0.  Dividing by 10^k splits the
\* decimal digits after the k lowest ones.
DivMod(a, b) ==
    IF IsPow10(b)
    THEN LET k == Len(b) - 1
         IN  [q |-> SubSeq(a, k + 1, Len(a)),
              r |-> Norm(SubSeq(a, 1, IF k < Len(a) THEN k ELSE Len(a)))]
    ELSE LongDiv(a, b)

Div(a, b) == DivMod(a, b).q

Mod(a, b) == DivMod(a, b).r

\* ------------------------------------------------------------------------
\* Machine integers
\* ------------------------------------------------------------------------

\* u64::MAX = 2^64 - 1.
U64Max == Dec(<<1,8,4,4,6,7,4,4,0,7,3,7,0,9,5,5,1,6,1,5>>)

TwoTo64 == Add(U64Max, N(1))

\* u32::MAX = 2^32 - 1.
U32Max == Dec(<<4,2,9,4,9,6,7,2,9,5>>)

TwoTo32 == Add(U32Max, N(1))

\* The outcome of a computation.  panic: it panics in every build.
\* overflow: an integer operation overflowed on the way, which panics in a
\* build with overflow checks (debug) and wraps in one without (release);
\* value is then the value computed with wrapping.
Ok(v) == [panic |-> FALSE, overflow |-> FALSE, value |-> v]

Panic == [panic |-> TRUE, overflow |-> FALSE, value |-> << >>]

\* a + b in u64.
u64_add(a, b) ==
    LET s == Add(a, b)
    IN  IF Leq(s, U64Max) THEN Ok(s)
        ELSE [panic |-> FALSE, overflow |-> TRUE, value |-> Mod(s, TwoTo64)]

\* A slip: the power computed in u32.
u32_pow10(exp) ==
    LET p == Mul10(N(1), exp)
    IN  IF Leq(p, U32Max) THEN Ok(p)
        ELSE [panic |-> FALSE, overflow |-> TRUE, value |-> Mod(p, TwoTo32)]

\* 10u64.pow(exp).
u64_pow10(exp) ==
    LET p == Mul10(N(1), exp)
    IN  IF Leq(p, U64Max) THEN Ok(p)
        ELSE [panic |-> FALSE, overflow |-> TRUE, value |-> Mod(p, TwoTo64)]

\* id.ilog10(): panics for 0.
ilog10(id) == IF id = Zero THEN Panic ELSE Ok(Len(id) - 1)

\* ------------------------------------------------------------------------
\* day02: the digit-pattern classifier
\* ------------------------------------------------------------------------

Modes == {"Two", "Multiple"}

RECURSIVE block_loop(_, _, _, _, _)
\* The inner loop `for i in 1..freq`: valid_at_freq, which becomes true at
\* the first block that differs from the rightmost one.
block_loop(id_pivoted, pivot, right, i, freq) ==
    /\ i < freq
    /\ \E shifted \in {Div(id_pivoted, pivot)} :
         \/ Mod(shifted, pivot) # right
         \/ block_loop(shifted, pivot, right, i + 1, freq)

\* The block width checked for a block count freq that divides digits.
period_of(digits, freq) == digits \div freq

\* The walk over the blocks of id for one freq, given pivot = 10^period: a
\* pivot of 0 would divide by zero.
walk_blocks(id, freq, pivot) ==
    IF pivot.value = Zero THEN Panic
    ELSE [panic    |-> FALSE,
          overflow |-> pivot.overflow,
          value    |-> block_loop(id, pivot.value,
                                  Mod(id, pivot.value), 1, freq)]

\* valid_at_freq for one freq with digits % freq = 0.
valid_at_freq(id, digits, freq) ==
    walk_blocks(id, freq, u64_pow10(period_of(digits, freq)))

RECURSIVE freq_loop_last_wins(_, _, _, _, _, _)

\* The end of one iteration, with `valid = valid_at_freq` and no break.
freq_step_last_wins(id, digits, max_freq, freq, valid, ov, at) ==
    IF at.panic THEN Panic
    ELSE freq_loop_last_wins(id, digits, max_freq, freq + 1,
                             at.value, ov \/ at.overflow)

\* A slip: `valid = valid_at_freq` with no break, so that the last freq
\* checked decides.
freq_loop_last_wins(id, digits, max_freq, freq, valid, ov) ==
    IF freq > max_freq THEN [panic |-> FALSE, overflow |-> ov, value |-> valid]
    ELSE IF digits % freq # 0
         THEN freq_loop_last_wins(id, digits, max_freq, freq + 1, valid, ov)
    ELSE freq_step_last_wins(id, digits, max_freq, freq, valid, ov,
                             valid_at_freq(id, digits, freq))

RECURSIVE freq_loop(_, _, _, _, _, _)

\* A slip: `if valid { break; }`, the loop left at the first freq that does
\* not prove the id invalid.
freq_step_break_when_valid(id, digits, max_freq, freq, valid, ov, at) ==
    IF at.panic THEN Panic
    ELSE IF valid /\ at.value
         THEN [panic |-> FALSE, overflow |-> ov \/ at.overflow, value |-> TRUE]
    ELSE freq_loop(id, digits, max_freq, freq + 1, FALSE, ov \/ at.overflow)

\* The end of one iteration, given valid_at_freq (at):
\* `valid = valid && valid_at_freq; if !valid { break; }`.
freq_step(id, digits, max_freq, freq, valid, ov, at) ==
    IF at.panic THEN Panic
    ELSE IF ~(valid /\ at.value)
         THEN [panic |-> FALSE, overflow |-> ov \/ at.overflow, value |-> FALSE]
    ELSE freq_loop(id, digits, max_freq, freq + 1, TRUE, ov \/ at.overflow)

\* The outer loop `for freq in 2..=max_freq` from freq on, with the value of
\* `valid` so far and whether an operation has overflowed so far.
freq_loop(id, digits, max_freq, freq, valid, ov) ==
    IF freq > max_freq THEN [panic |-> FALSE, overflow |-> ov, value |-> valid]
    ELSE IF digits % freq # 0
         THEN freq_loop(id, digits, max_freq, freq + 1, valid, ov)
    ELSE freq_step(id, digits, max_freq, freq, valid, ov,
                   valid_at_freq(id, digits, freq))

\* A slip: `2..max_freq` for `2..=max_freq` in Mode::Multiple.
max_freq_of_exclusive(mode, digits) == IF mode = "Two" THEN 2 ELSE digits - 1

\* A slip: the mode ignored.
max_freq_of_any_mode(mode, digits) == digits

\* max_freq for a mode and a digit count.
max_freq_of(mode, digits) == IF mode = "Two" THEN 2 ELSE digits

\* The body of id_is_valid after `id.ilog10()` (lg).
classify(id, mode, lg) ==
    IF lg.panic THEN Panic
    ELSE freq_loop(id, lg.value + 1, max_freq_of(mode, lg.value + 1),
                   2, TRUE, FALSE)

id_is_valid(id, mode) == classify(id, mode, ilog10(id))

\* ------------------------------------------------------------------------
\* day02: the range aggregator
\* ------------------------------------------------------------------------

\* A slip: a loop that tests `id <= end` after the body, so that a range
\* with start > end yields start.
range_inclusive_do_while(start, end) ==
    IF Less(end, start) THEN <<start>>
    ELSE LET n == Val(Sub(end, start)) + 1
         IN  SubSeq([k \in 1..n |-> Add(start, N(k - 1))], 1, n)

\* The ids `start..=end` yields, in order: none when start > end.
range_inclusive(start, end) ==
    IF Less(end, start) THEN << >>
    ELSE LET n == Val(Sub(end, start)) + 1
         IN  SubSeq([k \in 1..n |-> Add(start, N(k - 1))], 1, n)

\* id_is_valid on each of ids, as the filter's closure calls it.
check_ids(ids, mode) ==
    SubSeq([k \in 1..Len(ids) |->
              [id |-> ids[k], r |-> id_is_valid(ids[k], mode)]],
           1, Len(ids))

\* The positions, among the first k checked ids, of those found invalid.
kept_positions(checked, k) ==
    LET invalid(j) == ~checked[j].r.panic /\ ~checked[j].r.value
    IN  SelectSeq(SubSeq([j \in 1..k |-> j], 1, k), invalid)

\* The ids at the positions at.
ids_at(checked, at) == SubSeq([j \in 1..Len(at) |-> checked[at[j]].id], 1, Len(at))

\* The first k of the checked ids, filtered: those found invalid.
keep_invalid(checked, k) == ids_at(checked, kept_positions(checked, k))

\* The least of a set of positions.
first_of(positions) == CHOOSE k \in positions : \A j \in positions : k <= j

\* What the iteration has done after n calls of id_is_valid of which the
\* first `returned` have returned, ovs being the positions of the calls in
\* which an operation overflowed.  calls counts the calls made in a build
\* without overflow checks, checked_calls those made in a build with them,
\* which panics in the first call that overflows; `at` gives for each id
\* yielded the number of calls made when the filter yields it.
filter_record(checked, panic, n, returned, ovs) ==
    [panic         |-> panic,
     overflow      |-> ovs # {},
     calls         |-> n,
     checked_calls |-> IF ovs # {} THEN first_of(ovs) ELSE n,
     value         |-> keep_invalid(checked, returned),
     at            |-> kept_positions(checked, returned)]

filter_yield(checked, panic, n, returned) ==
    filter_record(checked, panic, n, returned,
                  {k \in 1..returned : checked[k].r.overflow})

\* The iteration over the checked ids up to the first one on which
\* id_is_valid panics (died holds the positions of those).
filter_until(checked, died) ==
    IF died = {}
    THEN filter_yield(checked, FALSE, Len(checked), Len(checked))
    ELSE filter_yield(checked, TRUE, first_of(died), first_of(died) - 1)

filter_checked(checked) ==
    filter_until(checked, {k \in 1..Len(checked) : checked[k].r.panic})

\* The ids of the range the filter keeps, in order.  calls counts the ids
\* the filter's closure has passed to id_is_valid; a panic of id_is_valid
\* ends the iteration.
invalid_ids_in_range(range, mode) ==
    filter_checked(check_ids(range_inclusive(range.start, range.end), mode))

\* One step of the fold, the k-th: (count + 1, sum + id), from the
\* accumulator acc.  first is the first step in which an addition
\* overflowed (0: none has).
fold_step(acc, count, sum, k) ==
    [panic    |-> FALSE,
     overflow |-> acc.overflow \/ count.overflow \/ sum.overflow,
     first    |-> IF acc.first # 0 THEN acc.first
                  ELSE IF count.overflow \/ sum.overflow THEN k
                  ELSE 0,
     value    |-> <<count.value, sum.value>>]

RECURSIVE fold_count_sum(_, _)
\* The fold `|(count, sum), id| (count + 1, sum + id)` from (0, 0) over the
\* first k ids.  (The singleton set binds the accumulator to its value.)
fold_count_sum(ids, k) ==
    IF k = 0
    THEN [panic |-> FALSE, overflow |-> FALSE, first |-> 0,
          value |-> <<Zero, Zero>>]
    ELSE CHOOSE res \in
           {fold_step(acc, u64_add(acc.value[1], N(1)),
                           u64_add(acc.value[2], ids[k]), k) :
              acc \in {fold_count_sum(ids, k - 1)}} : TRUE

\* The calls of id_is_valid made, in a build with overflow checks, by the
\* fold acc over what the iterator it yields: the filter and the fold run
\* id by id, and the first overflow, in a call or in a step of the fold,
\* ends them.
checked_calls_of(it, acc) ==
    IF acc.first = 0 THEN it.checked_calls
    ELSE IF it.at[acc.first] < it.checked_calls THEN it.at[acc.first]
    ELSE it.checked_calls

\* The fold over what the iterator it yields.
count_sum_of(it, acc) ==
    [panic         |-> it.panic,
     overflow      |-> it.overflow \/ acc.overflow,
     calls         |-> it.calls,
     checked_calls |-> checked_calls_of(it, acc),
     value         |-> acc.value]

count_sum_over(it) == count_sum_of(it, fold_count_sum(it.value, Len(it.value)))

count_sum_invalid_ids_in_range(range, mode) ==
    count_sum_over(invalid_ids_in_range(range, mode))

\* The calls of id_is_valid made in a build with overflow checks after the
\* range that gave cs: none after the first overflow.
checked_calls_after(tot, cs) ==
    IF tot.overflow THEN tot.checked_calls
    ELSE tot.calls + cs.checked_calls

\* `total_count += count; total_sum += sum`, from the totals tot and the
\* (count, sum) of the range, cs.
add_totals(tot, cs, total_count, total_sum) ==
    [panic         |-> cs.panic,
     overflow      |-> \/ tot.overflow \/ cs.overflow
                       \/ total_count.overflow \/ total_sum.overflow,
     calls         |-> tot.calls + cs.calls,
     checked_calls |-> checked_calls_after(tot, cs),
     value         |-> <<total_count.value, total_sum.value>>,
     per_range     |-> Append(tot.per_range, cs.value)]

\* One iteration of `for range in ranges`; a panic has ended the loop.
calc_step(tot, cs) ==
    IF tot.panic THEN tot
    ELSE IF cs.panic
         THEN [panic         |-> TRUE,
               overflow      |-> tot.overflow \/ cs.overflow,
               calls         |-> tot.calls + cs.calls,
               checked_calls |-> checked_calls_after(tot, cs),
               value         |-> << >>,
               per_range     |-> tot.per_range]
    ELSE add_totals(tot, cs, u64_add(tot.value[1], cs.value[1]),
                             u64_add(tot.value[2], cs.value[2]))

RECURSIVE calc_loop(_, _, _)
\* The loop `for range in ranges` over the first k ranges: the totals, and
\* the (count, sum) of each range as the loop got it.
calc_loop(ranges, mode, k) ==
    IF k = 0
    THEN [panic |-> FALSE, overflow |-> FALSE, calls |-> 0,
          checked_calls |-> 0,
          value |-> <<Zero, Zero>>, per_range |-> << >>]
    ELSE CHOOSE res \in
           {calc_step(tot, count_sum_invalid_ids_in_range(ranges[k], mode)) :
              tot \in {calc_loop(ranges, mode, k - 1)}} : TRUE

calc_count_sum(ranges, mode) == calc_loop(ranges, mode, Len(ranges))

\* ------------------------------------------------------------------------
\* Inputs
\* ------------------------------------------------------------------------

\* Every id up to MaxSmallId is classified.
MaxSmallId == 1300

\* Ranges start at up to MaxRangeStart and hold up to MaxRangeLen + 1 ids.
MaxRangeStart == 100

MaxRangeLen == 20

\* calc_count_sum gets up to MaxRanges ranges.
MaxRanges == 2

SmallIds == {N(n) : n \in 0..MaxSmallId}

\* Digit strings that the wide ids repeat.
Blocks ==
    { <<1>>, <<9>>, <<1,0>>, <<1,2>>, <<9,8>>, <<1,0,0>>, <<1,2,3>>,
      <<1,2,1,2>>, <<1,0,0,0>>, <<1,2,3,4,5>>, <<1,0,0,0,0>>,
      <<1,2,3,4,5,6,7>>, <<1,0,0,0,0,0,0,0,0,0>>, <<1,8,4,4,6,7,4,4,0,7>>,
      <<1,8,4,4,6,7,4,4,0,8>>, <<1,2,3,4,5,6,7,8,9,0>> }

\* The digit string b written reps times.
Repeat(b, reps) ==
    SubSeq([i \in 1..(Len(b) * reps) |-> b[((i - 1) % Len(b)) + 1]],
           1, Len(b) * reps)

\* Ids made of one block repeated, up to 20 digits, and their neighbours.
PatternIds ==
    LET shapes == {x \in Blocks \X (1..20) : Len(x[1]) * x[2] <= 20}
        pats   == {Dec(Repeat(x[1], x[2])) : x \in shapes}
        near == pats \cup {Add(p, N(1)) : p \in pats}
                     \cup {Sub(p, N(1)) : p \in pats}
    IN  {p \in near : Leq(p, U64Max)}

\* The powers of ten of u64, their predecessors, and the largest ids.
EdgeIds ==
    {Mul10(N(1), k) : k \in 0..19}
        \cup {Sub(Mul10(N(1), k), N(1)) : k \in 0..19}
        \cup {U64Max, Sub(U64Max, N(1))}

\* The ids of the repository's tests.
FixtureIds ==
    { N(55), N(6464), N(123123), N(101), N(123123123), N(1212121212),
      N(1111111) }

Ids == SmallIds \cup PatternIds \cup EdgeIds \cup FixtureIds

\* A 20-digit id that is invalid in both modes, and the largest 20-digit id
\* made of two equal halves.
Ones20 == Dec(Repeat(<<1>>, 20))

TopHalves == Dec(Repeat(<<1,8,4,4,6,7,4,4,0,7>>, 2))

IdRange(start, end) == [start |-> start, end |-> end]

\* Short ranges of small ids, among them every range with start > end that
\* misses by one or two.
SmallRanges ==
    UNION { {IdRange(N(s), N(e)) :
                e \in {x \in (s - 2)..(s + MaxRangeLen) : x >= 0}} :
            s \in 0..MaxRangeStart }

\* Ranges of wide ids, well-formed and with start > end.
WideRanges ==
    { IdRange(N(998), N(1012)),
      IdRange(Ones20, Ones20),
      IdRange(Sub(Ones20, N(2)), Add(Ones20, N(2))),
      IdRange(TopHalves, TopHalves),
      IdRange(Sub(U64Max, N(3)), U64Max),
      IdRange(U64Max, U64Max),
      IdRange(U64Max, Zero),
      IdRange(U64Max, Sub(U64Max, N(1))),
      IdRange(Ones20, N(11)),
      IdRange(N(1010), N(1010)),
      IdRange(N(123123), N(123123)) }

Ranges == SmallRanges \cup WideRanges

\* The ranges calc_count_sum is given lists of.
CalcRanges ==
    { IdRange(N(11), N(22)), IdRange(N(95), N(115)), IdRange(N(20), N(24)),
      IdRange(N(22), N(11)), IdRange(N(1010), N(1010)),
      IdRange(Ones20, Ones20), IdRange(TopHalves, TopHalves) }

\* Lists in which the totals overflow at the second range, before a range
\* of small ids and before a range that starts at 0.
OverflowingLists ==
    { << IdRange(Ones20, Ones20), IdRange(Ones20, Ones20),
         IdRange(N(11), N(22)) >>,
      << IdRange(Ones20, Ones20), IdRange(Ones20, Ones20),
         IdRange(Zero, N(3)) >> }

RangeLists ==
    UNION {[1..n -> CalcRanges] : n \in 0..MaxRanges}
        \cup OverflowingLists

\* ------------------------------------------------------------------------
\* day01: the dial
\* ------------------------------------------------------------------------

\* A sum s of two u32 as u32 holds it.
u32_wrap(s) ==
    IF Leq(s, U32Max) THEN Ok(s)
    ELSE [panic |-> FALSE, overflow |-> TRUE, value |-> Mod(s, TwoTo32)]

\* a + b in u32.
u32_add(a, b) == u32_wrap(Add(a, b))

\* a - b in u32.
u32_sub(a, b) ==
    IF Leq(b, a) THEN Ok(Sub(a, b))
    ELSE [panic |-> FALSE, overflow |-> TRUE,
          value |-> Sub(Add(a, TwoTo32), b)]

DialModes == {"CountZerosAfterRotation", "CountZerosDuringRotation"}

Operations == {"Left", "Right"}

Instruction(op_, count) == [operation |-> op_, argument |-> count]

\* State::new(): the dial points at 50.
new == N(50)

RECURSIVE left_loop(_, _, _, _)

\* The end of one iteration of the loop: `zeros += 1`, if it ran, has given
\* zeros and `self.num += 100` has given next.
left_step(count, zeros, next, ov) ==
    left_loop(next.value, count, zeros.value,
              ov \/ zeros.overflow \/ next.overflow)

\* `while count > self.num { if self.num != 0 { zeros += 1; }
\* self.num += 100; }`, with whether an operation has overflowed so far.
left_loop(num, count, zeros, ov) ==
    IF Less(num, count)
    THEN CHOOSE res \in
           {left_step(count, z, next, o) :
              z \in {IF num # Zero THEN u32_add(zeros, N(1)) ELSE Ok(zeros)},
              next \in {u32_add(num, N(100))},
              o \in {ov}} : TRUE
    ELSE [num |-> num, zeros |-> zeros, overflow |-> ov]

\* The Left arm after its loop (lp): `self.num -= count`.
left_end(lp, diff) ==
    [panic    |-> FALSE,
     overflow |-> lp.overflow \/ diff.overflow,
     value    |-> [num |-> diff.value, zeros |-> lp.zeros]]

left_arm(lp, count) == left_end(lp, u32_sub(lp.num, count))

\* The Right arm after `self.num += count` (sum), with num = sum % 100 and
\* zeros as `if self.num == 0 { zeros -= 1; }` leaves it.
right_end(sum, num, zeros) ==
    [panic    |-> FALSE,
     overflow |-> sum.overflow \/ zeros.overflow,
     value    |-> [num |-> num, zeros |-> zeros.value]]

\* `zeros += self.num / 100; self.num %= 100; if self.num == 0 ...`.
right_arm(sum) ==
    right_end(sum, Mod(sum.value, N(100)),
              IF Mod(sum.value, N(100)) = Zero
              THEN u32_sub(Div(sum.value, N(100)), N(1))
              ELSE Ok(Div(sum.value, N(100))))

\* State::apply on a dial at num: the dial's new num and the zeros returned.
apply(num, instruction) ==
    IF instruction.operation = "Left"
    THEN left_arm(left_loop(num, instruction.argument, Zero, FALSE),
                  instruction.argument)
    ELSE right_arm(u32_add(num, instruction.argument))

\* The end of one iteration of apply_multiple's loop: `zeros_during +=`
\* what apply returned (r) has given during, and `if self.num == 0
\* { zeros_after += 1; }` has given after.
multiple_after(st, r, during, after) ==
    [overflow     |-> \/ st.overflow \/ r.overflow
                      \/ during.overflow \/ after.overflow,
     num          |-> r.value.num,
     zeros_during |-> during.value,
     zeros_after  |-> after.value]

multiple_end(st, r, during) ==
    multiple_after(st, r, during,
                   IF r.value.num = Zero THEN u32_add(st.zeros_after, N(1))
                   ELSE Ok(st.zeros_after))

multiple_count(st, r) ==
    multiple_end(st, r, u32_add(st.zeros_during, r.value.zeros))

multiple_step(st, instruction) ==
    multiple_count(st, apply(st.num, instruction))

RECURSIVE multiple_loop(_, _, _)
\* `for instruction in instructions` over the first k instructions.
multiple_loop(num, instructions, k) ==
    IF k = 0
    THEN [overflow |-> FALSE, num |-> num,
          zeros_during |-> Zero, zeros_after |-> Zero]
    ELSE CHOOSE res \in
           {multiple_step(st, instructions[k]) :
              st \in {multiple_loop(num, instructions, k - 1)}} : TRUE

\* What apply_multiple returns after its loop (st), total being
\* `zeros_during + zeros_after`.
multiple_return(st, mode, total) ==
    IF mode = "CountZerosDuringRotation"
    THEN [panic    |-> FALSE,
          overflow |-> st.overflow \/ total.overflow,
          value    |-> [num |-> st.num, zeros |-> total.value]]
    ELSE [panic    |-> FALSE,
          overflow |-> st.overflow,
          value    |-> [num |-> st.num, zeros |-> st.zeros_after]]

multiple_result(st, mode) ==
    multiple_return(st, mode, u32_add(st.zeros_during, st.zeros_after))

\* State::apply_multiple on a dial at num.
apply_multiple(num, instructions, mode) ==
    multiple_result(multiple_loop(num, instructions, Len(instructions)), mode)

RECURSIVE main_left_loop(_, _, _)
\* main.rs, State::apply, Left: `while count > self.num { self.num += 100; }`.
main_left_loop(num, count, ov) ==
    IF Less(num, count)
    THEN CHOOSE res \in
           {main_left_loop(next.value, count, ov \/ next.overflow) :
              next \in {u32_add(num, N(100))}} : TRUE
    ELSE [num |-> num, zeros |-> Zero, overflow |-> ov]

\* main.rs, State::apply, Right: `self.num = (self.num + count) % 100`.
main_right_arm(sum) ==
    [panic    |-> FALSE,
     overflow |-> sum.overflow,
     value    |-> [num |-> Mod(sum.value, N(100)), zeros |-> Zero]]

\* main.rs, State::apply on a dial at num: it returns nothing (zeros is 0).
main_apply(num, instruction) ==
    IF instruction.operation = "Left"
    THEN left_arm(main_left_loop(num, instruction.argument, FALSE),
                  instruction.argument)
    ELSE main_right_arm(u32_add(num, instruction.argument))

\* main.rs, the end of one iteration of apply_multiple's loop: apply has
\* given r and `if self.num == 0 { zero_count += 1; }` has given count.
main_multiple_end(st, r, count) ==
    [overflow   |-> st.overflow \/ r.overflow \/ count.overflow,
     num        |-> r.value.num,
     zero_count |-> count.value]

main_multiple_count(st, r) ==
    main_multiple_end(st, r,
                      IF r.value.num = Zero THEN u32_add(st.zero_count, N(1))
                      ELSE Ok(st.zero_count))

main_multiple_step(st, instruction) ==
    main_multiple_count(st, main_apply(st.num, instruction))

RECURSIVE main_multiple_loop(_, _, _)
\* main.rs, `for instruction in instructions` over the first k instructions.
main_multiple_loop(num, instructions, k) ==
    IF k = 0
    THEN [overflow |-> FALSE, num |-> num, zero_count |-> Zero]
    ELSE CHOOSE res \in
           {main_multiple_step(st, instructions[k]) :
              st \in {main_multiple_loop(num, instructions, k - 1)}} : TRUE

main_multiple_return(st) ==
    [panic    |-> FALSE,
     overflow |-> st.overflow,
     value    |-> [num |-> st.num, zeros |-> st.zero_count]]

\* main.rs, State::apply_multiple on a dial at num.
main_apply_multiple(num, instructions) ==
    main_multiple_return(
        main_multiple_loop(num, instructions, Len(instructions)))

\* ------------------------------------------------------------------------
\* Inputs of the dial
\* ------------------------------------------------------------------------

MaxCount == 205

MaxInstrs == 2

\* The positions of the dial.
Positions == {N(n) : n \in 0..99}

\* Counts at the end of u32: from 50, the largest one that `self.num +=
\* count` can take and the ones past it.
HugeCounts ==
    { Sub(U32Max, N(50)), Sub(U32Max, N(49)), Sub(U32Max, N(1)), U32Max }

\* The instructions apply is given.
Instructions ==
    {Instruction(o, N(c)) : o \in Operations, c \in 0..MaxCount}
        \cup {Instruction("Right", c) : c \in HugeCounts}
        \cup {Instruction("Left", N(1000)), Instruction("Right", N(1000))}

\* A sequence of ten rotations from 50 that ends three rotations on 0 and
\* passes 0 three more times.
TenRotations ==
    << Instruction("Left", N(68)), Instruction("Left", N(30)),
       Instruction("Right", N(48)), Instruction("Left", N(5)),
       Instruction("Right", N(60)), Instruction("Left", N(55)),
       Instruction("Left", N(1)), Instruction("Left", N(99)),
       Instruction("Right", N(14)), Instruction("Left", N(82)) >>

\* The instructions of the sequences apply_multiple is given.
SequenceInstructions ==
    { Instruction("Left", N(68)), Instruction("Left", N(50)),
      Instruction("Right", N(50)), Instruction("Left", N(100)),
      Instruction("Right", N(100)), Instruction("Left", N(250)),
      Instruction("Right", N(1000)), Instruction("Right", N(7)),
      Instruction("Right", Zero), Instruction("Right", U32Max) }

InstructionLists ==
    UNION {[1..n -> SequenceInstructions] : n \in 0..MaxInstrs}
        \cup {TenRotations}

\* The positions apply_multiple starts from.
StartPositions == {new, Zero}

\* ------------------------------------------------------------------------
\* day03: the battery lines
\* ------------------------------------------------------------------------

\* A line is the sequence of its characters, each one its code point ('0' is
\* 48, '9' is 57); the lines modelled are ASCII, one byte for each character.

\* char::to_digit(c, 10): None is -1.
to_digit(c) == IF c \in 48..57 THEN c - 48 ELSE -1

RECURSIVE max_by(_, _)
\* max_by over the first k of the enumerated characters of s, with the
\* comparison of max_char (Greater if a >= b, else Less): the maximum so far
\* is kept unless the comparison with the next character is Less.
max_by(s, k) ==
    IF k = 1 THEN [ok |-> TRUE, index |-> 0, char |-> s[1]]
    ELSE CHOOSE res \in
           {IF acc.char >= s[k] THEN acc
            ELSE [ok |-> TRUE, index |-> k - 1, char |-> s[k]] :
              acc \in {max_by(s, k - 1)}} : TRUE

\* max_char(s): an error for the empty string.
max_char(s) ==
    IF s = << >> THEN [ok |-> FALSE, index |-> 0, char |-> 0]
    ELSE max_by(s, Len(s))

\* largest_digit after max_char (max): `max.0 += offset`, then to_digit.
digit_of(offset, max) ==
    IF ~max.ok \/ to_digit(max.char) = -1
    THEN [panic |-> FALSE, ok |-> FALSE, index |-> 0, num |-> 0]
    ELSE [panic |-> FALSE, ok |-> TRUE,
          index |-> max.index + offset, num |-> to_digit(max.char)]

\* BatteryLine::largest_digit(s, offset, max_offset); the slice
\* `s[offset..max_offset]` panics out of the string.
largest_digit(s, offset, max_offset) ==
    IF offset > max_offset \/ max_offset > Len(s)
    THEN [panic |-> TRUE, ok |-> FALSE, index |-> 0, num |-> 0]
    ELSE digit_of(offset, max_char(SubSeq(s, offset + 1, max_offset)))

\* A product p of a u64 and 10 as u64 holds it.
u64_wrap(p) ==
    IF Leq(p, U64Max) THEN Ok(p)
    ELSE [panic |-> FALSE, overflow |-> TRUE, value |-> Mod(p, TwoTo64)]

\* `num * 10 + digit` given num * 10 (product).
times_ten_plus(product, sum) ==
    [panic    |-> FALSE,
     overflow |-> product.overflow \/ sum.overflow,
     value    |-> sum.value]

add_digit(product, digit) ==
    times_ten_plus(product, u64_add(product.value, N(digit)))

\* The loop of largest_number after some iterations: num, offset and
\* max_offset as the code names them, picks the indices taken so far, and
\* how the loop has ended if it has (a panic, or the `?` returning an Err).
number_start(max_offset) ==
    [done |-> FALSE, panic |-> FALSE, err |-> FALSE, overflow |-> FALSE,
     num |-> Zero, offset |-> 0, max_offset |-> max_offset, picks |-> << >>]

\* The end of one iteration, with `num = num * 10 + digit.1` as next.
number_next(st, digit, next) ==
    [done |-> FALSE, panic |-> FALSE, err |-> FALSE,
     overflow   |-> st.overflow \/ next.overflow,
     num        |-> next.value,
     offset     |-> digit.index + 1,
     max_offset |-> st.max_offset + 1,
     picks      |-> Append(st.picks, digit.index)]

\* One iteration of the loop, given what largest_digit returned.
number_digit(st, digit) ==
    IF digit.panic THEN [st EXCEPT !.done = TRUE, !.panic = TRUE]
    ELSE IF ~digit.ok THEN [st EXCEPT !.done = TRUE, !.err = TRUE]
    ELSE number_next(st, digit,
                     add_digit(u64_wrap(Mul10(st.num, 1)), digit.num))

\* One iteration of the loop, if the loop has not ended before it.
number_step(line, st) ==
    IF st.done THEN st
    ELSE number_digit(st, largest_digit(line, st.offset, st.max_offset))

RECURSIVE number_loop(_, _, _)
\* `for i in 0..digits`, after its first k iterations.  (The singleton set
\* binds the state to its value before the step uses it.)
number_loop(line, max_offset, k) ==
    IF k = 0 THEN number_start(max_offset)
    ELSE CHOOSE res \in
           {number_step(line, st) :
              st \in {number_loop(line, max_offset, k - 1)}} : TRUE

\* What largest_number returns: `Ok(num)`, or the Err of largest_digit.
number_return(st) ==
    IF st.panic
    THEN [panic |-> TRUE, overflow |-> FALSE, value |-> << >>,
          picks |-> st.picks]
    ELSE [panic |-> FALSE, overflow |-> st.overflow,
          value |-> IF st.err THEN <<"Err">> ELSE <<"Ok", st.num>>,
          picks |-> st.picks]

\* BatteryLine::largest_number(digits).  `self.line.len() - (digits as
\* usize - 1)` underflows for digits = 0 (it wraps twice, to len + 1, and
\* the loop does not run) and for digits > len + 1 (it wraps to a
\* max_offset past the line, and the slice panics).
largest_number(line, digits) ==
    IF digits = 0
    THEN [panic |-> FALSE, overflow |-> TRUE, value |-> <<"Ok", Zero>>,
          picks |-> << >>]
    ELSE IF digits - 1 > Len(line)
    THEN [panic |-> TRUE, overflow |-> FALSE, value |-> << >>,
          picks |-> << >>]
    ELSE number_return(
             number_loop(line, Len(line) - (digits - 1), digits))

\* ------------------------------------------------------------------------
\* Inputs of the battery lines
\* ------------------------------------------------------------------------

MaxLineLen == 5

\* '0', '5', '9' and 'a'.
LineChars == {48, 53, 57, 97}

\* The line of the digits ds.
DigitLine(ds) == [i \in 1..Len(ds) |-> ds[i] + 48]

ShortLines == UNION {[1..n -> LineChars] : n \in 0..MaxLineLen}

\* The test's line, four lines of fifteen digits, and lines of twenty
\* digits about 2^64.
LongLines ==
    { DigitLine(<<1,2,3,4,5,6>>),
      DigitLine(<<9,8,7,6,5,4,3,2,1,1,1,1,1,1,1>>),
      DigitLine(<<8,1,1,1,1,1,1,1,1,1,1,1,1,1,9>>),
      DigitLine(<<2,3,4,2,3,4,2,3,4,2,3,4,2,7,8>>),
      DigitLine(<<8,1,8,1,8,1,9,1,1,1,1,2,1,1,1>>),
      DigitLine(<<1,8,4,4,6,7,4,4,0,7,3,7,0,9,5,5,1,6,1,5>>),
      DigitLine(<<1,8,4,4,6,7,4,4,0,7,3,7,0,9,5,5,1,6,1,6>>),
      DigitLine(<<9,9,9,9,9,9,9,9,9,9,9,9,9,9,9,9,9,9,9,9>>) }

\* The numbers of digits asked of a long line: those of Mode::Two and
\* Mode::Twelve, and twenty.
LongDigits == {2, 12, 20}

\* ------------------------------------------------------------------------
\* The programs as a state machine
\* ------------------------------------------------------------------------

VARIABLES
    overflow_checks,  \* the build: TRUE with overflow checks (debug)
    pc,               \* "start", then "done" when the call has ended
    op,               \* the function called
    arg,              \* its arguments
    ret,              \* how it ended: [panic, value]
    calls             \* the calls of id_is_valid it made

vars == <<overflow_checks, pc, op, arg, ret, calls>>

\* How a computation ends in this build.
Outcome(r) ==
    IF r.panic \/ (r.overflow /\ overflow_checks)
    THEN [panic |-> TRUE, value |-> << >>]
    ELSE [panic |-> FALSE, value |-> r.value]

Init ==
    /\ overflow_checks \in BOOLEAN
    /\ pc = "start"
    /\ op = "none"
    /\ arg = << >>
    /\ ret = [panic |-> FALSE, value |-> << >>]
    /\ calls = 0

\* The call of function name with arguments a has ended as r, after n calls
\* of id_is_valid.
EndCall(name, a, r, n) ==
    /\ op' = name
    /\ arg' = a
    /\ ret' = Outcome(r)
    /\ calls' = n
    /\ pc' = "done"
    /\ UNCHANGED overflow_checks

\* The same for a function that counts its calls of id_is_valid: a build
\* with overflow checks makes none after the first overflow.
EndCounted(name, a, r) ==
    EndCall(name, a, r,
            IF overflow_checks /\ r.overflow THEN r.checked_calls
            ELSE r.calls)

\* id_is_valid(id, mode), as the tests call it.
CallIdIsValid ==
    /\ pc = "start"
    /\ \E id \in Ids, mode \in Modes :
           EndCall("id_is_valid", [id |-> id, mode |-> mode],
                   id_is_valid(id, mode), 1)

\* count_sum_invalid_ids_in_range(&range, mode).
CallCountSum ==
    /\ pc = "start"
    /\ \E range \in Ranges, mode \in Modes :
           EndCounted("count_sum_invalid_ids_in_range",
                      [range |-> range, mode |-> mode],
                      count_sum_invalid_ids_in_range(range, mode))

\* calc_count_sum(&ranges, mode), as main calls it on the parsed input.
CallCalcCountSum ==
    /\ pc = "start"
    /\ \E ranges \in RangeLists, mode \in Modes :
           EndCounted("calc_count_sum", [ranges |-> ranges, mode |-> mode],
                      calc_count_sum(ranges, mode))

\* state.apply(instruction, mode, false) on a dial set to num, as the tests
\* call it.
CallApply ==
    /\ pc = "start"
    /\ \E num \in Positions, instruction \in Instructions :
           EndCall("apply", [num |-> num, instruction |-> instruction],
                   apply(num, instruction), 0)

\* state.apply_multiple(instructions, mode, false), as main calls it.
CallApplyMultiple ==
    /\ pc = "start"
    /\ \E num \in StartPositions, instructions \in InstructionLists,
          mode \in DialModes :
           EndCall("apply_multiple",
                   [num |-> num, instructions |-> instructions, mode |-> mode],
                   apply_multiple(num, instructions, mode), 0)

\* main.rs: state.apply(instruction) on a dial set to num.
CallMainApply ==
    /\ pc = "start"
    /\ \E num \in Positions, instruction \in Instructions :
           EndCall("main_apply", [num |-> num, instruction |-> instruction],
                   main_apply(num, instruction), 0)

\* line.largest_number(digits), as the tests and calc_total_jolt call it.
CallLargestNumber ==
    /\ pc = "start"
    /\ \/ \E line \in ShortLines, digits \in 0..(MaxLineLen + 2) :
              EndCall("largest_number", [line |-> line, digits |-> digits],
                      largest_number(line, digits), 0)
       \/ \E line \in LongLines, digits \in LongDigits :
              EndCall("largest_number", [line |-> line, digits |-> digits],
                      largest_number(line, digits), 0)

\* main.rs: state.apply_multiple(instructions), as main calls it.
CallMainApplyMultiple ==
    /\ pc = "start"
    /\ \E num \in StartPositions, instructions \in InstructionLists :
           EndCall("main_apply_multiple",
                   [num |-> num, instructions |-> instructions],
                   main_apply_multiple(num, instructions), 0)

Next == CallIdIsValid \/ CallCountSum \/ CallCalcCountSum

Spec == Init /\ [][Next]_vars

NextDial ==
    \/ CallApply \/ CallApplyMultiple
    \/ CallMainApply \/ CallMainApplyMultiple

\* The dial program.
SpecDial == Init /\ [][NextDial]_vars

NextBattery == CallLargestNumber

\* The battery program.
SpecBattery == Init /\ [][NextBattery]_vars

\* ------------------------------------------------------------------------
\* What the specification says of the classifier
\* ------------------------------------------------------------------------

\* The digit string str, cut into freq blocks of equal width, has all its
\* blocks identical.
AllBlocksEqual(str, freq) ==
    LET width == Len(str) \div freq
    IN  \A j \in 1..freq :
            SubSeq(str, (j - 1) * width + 1, j * width) = SubSeq(str, 1, width)

\* Some block count from 2 to the digit count divides the digit string of
\* id into identical blocks.
RepeatedBlocks(id) ==
    LET str == Str(id)
    IN  \E freq \in 2..Len(str) :
            Len(str) % freq = 0 /\ AllBlocksEqual(str, freq)

\* id has an even number of digits and its two halves are the same string.
EqualHalves(id) ==
    LET str == Str(id)
        half == Len(str) \div 2
    IN  /\ Len(str) % 2 = 0
        /\ SubSeq(str, 1, half) = SubSeq(str, half + 1, 2 * half)

Classified(mode) ==
    pc = "done" /\ op = "id_is_valid" /\ arg.mode = mode

\* C1: for every id >= 1, id_is_valid(id, Mode::Multiple) is false exactly
\* when some block count freq in 2..=digits that divides digits cuts the
\* decimal digit string of id into identical blocks (freq = digits
\* included), and true otherwise.
C1_MultipleIsRepeatedBlocks ==
    (Classified("Multiple") /\ arg.id # Zero) =>
        /\ ~ret.panic
        /\ ret.value = ~RepeatedBlocks(arg.id)

\* The test's 1111111: seven equal one-digit blocks, found invalid.
C1_Witness ==
    /\ Classified("Multiple")
    /\ arg.id = N(1111111)
    /\ ~ret.panic /\ ret.value = FALSE

\* C2: for every id >= 1, id_is_valid(id, Mode::Two) is false exactly when
\* id has an even number of digits and its upper half equals its lower half
\* (id / 10^(digits/2) = id % 10^(digits/2)); an id with an odd digit count
\* is valid.
C2_TwoIsEqualHalves ==
    (Classified("Two") /\ arg.id # Zero) =>
        LET half == Mul10(N(1), Len(arg.id) \div 2)
        IN  /\ ~ret.panic
            /\ ret.value = ~EqualHalves(arg.id)
            /\ ret.value = ~(/\ Len(arg.id) % 2 = 0
                              /\ Div(arg.id, half) = Mod(arg.id, half))
            /\ (Len(arg.id) % 2 = 1 => ret.value = TRUE)

\* The test's 6464, found invalid, in a build of either kind.
C2_Witness ==
    /\ Classified("Two")
    /\ arg.id = N(6464)
    /\ ~ret.panic /\ ret.value = FALSE

\* C3: id_is_valid(0, mode) returns true in both modes, without a panic.
C3_ZeroIsValid ==
    (pc = "done" /\ op = "id_is_valid" /\ arg.id = Zero) =>
        (~ret.panic /\ ret.value = TRUE)

\* C4: every id that Mode::Two finds invalid, Mode::Multiple finds invalid.
C4_TwoInvalidImpliesMultipleInvalid ==
    (Classified("Two") /\ ~ret.panic /\ ret.value = FALSE) =>
        LET multiple == Outcome(id_is_valid(arg.id, "Multiple"))
        IN  ~multiple.panic /\ multiple.value = FALSE

\* 1212 is two blocks of 12 and four blocks that differ: invalid under Two.
C4_Witness ==
    /\ Classified("Two")
    /\ arg.id = N(1212)
    /\ ~ret.panic /\ ret.value = FALSE

\* C5: for every id from 1 to 2^64 - 1 and either mode, id_is_valid returns
\* a boolean without a panic: digits is in 1..=20, every freq checked has
\* period = digits / freq <= 10, pivot = 10^period does not overflow u64,
\* and nothing is divided by zero.
C5_ClassifierTotal ==
    (pc = "done" /\ op = "id_is_valid" /\ arg.id # Zero) =>
        LET digits == ilog10(arg.id).value + 1
            raw    == id_is_valid(arg.id, arg.mode)
        IN  /\ ~ret.panic /\ ret.value \in BOOLEAN
            /\ ~raw.panic /\ ~raw.overflow
            /\ digits \in 1..20
            /\ \A freq \in 2..max_freq_of(arg.mode, digits) :
                   digits % freq = 0 =>
                       LET pivot == u64_pow10(period_of(digits, freq))
                       IN  /\ period_of(digits, freq) <= 10
                           /\ ~pivot.overflow
                           /\ pivot.value # Zero

\* The largest id, 2^64 - 1, classified in Mode::Multiple.
C5_Witness ==
    /\ Classified("Multiple")
    /\ arg.id = U64Max
    /\ ~ret.panic

\* ------------------------------------------------------------------------
\* What the specification says of the aggregator
\* ------------------------------------------------------------------------

RECURSIVE SumSeq(_)
\* The mathematical sum of a sequence of numbers.
SumSeq(seq) ==
    IF seq = << >> THEN Zero
    ELSE CHOOSE res \in {Add(Head(seq), rest) :
                           rest \in {SumSeq(Tail(seq))}} : TRUE

\* The integers of [start, end] that id_is_valid finds invalid, in order.
InvalidIn(range, mode) ==
    LET found_invalid(id) ==
            \E r \in {id_is_valid(id, mode)} : ~r.panic /\ ~r.value
    IN  SelectSeq(range_inclusive(range.start, range.end), found_invalid)

\* Their number and their sum.
ExactCountSum(range, mode) ==
    CHOOSE cs \in {<<N(Len(inv)), SumSeq(inv)>> :
                     inv \in {InvalidIn(range, mode)}} : TRUE

\* The component-wise mathematical sum of a sequence of (count, sum) pairs.
PairSum(pairs) ==
    <<SumSeq([k \in 1..Len(pairs) |-> pairs[k][1]]),
      SumSeq([k \in 1..Len(pairs) |-> pairs[k][2]])>>

WellFormed(range) == Leq(range.start, range.end)

CountedRange ==
    pc = "done" /\ op = "count_sum_invalid_ids_in_range"

Aggregated ==
    pc = "done" /\ op = "calc_count_sum"

\* The orders in which n ranges can be given.
Orders(n) ==
    {p \in [1..n -> 1..n] : \A i, j \in 1..n : p[i] = p[j] => i = j}

\* C6: for every range with start <= end and either mode,
\* count_sum_invalid_ids_in_range returns the number and the sum of the
\* integers of [start, end] that id_is_valid finds invalid: (1, a) or (0, 0)
\* for the range [a, a], and under Mode::Two (2, 33) for 11..22 and (1, 99)
\* for 95..115.
C6_CountSumExact ==
    (CountedRange /\ WellFormed(arg.range)) =>
        /\ ~ret.panic
        /\ ret.value = ExactCountSum(arg.range, arg.mode)
        /\ (arg.range.start = arg.range.end =>
                ret.value \in {<<N(1), arg.range.start>>, <<Zero, Zero>>})
        /\ (arg.mode = "Two" /\ arg.range = IdRange(N(11), N(22)) =>
                ret.value = <<N(2), N(33)>>)
        /\ (arg.mode = "Two" /\ arg.range = IdRange(N(95), N(115)) =>
                ret.value = <<N(1), N(99)>>)

\* C7: calc_count_sum(ranges, mode) is the component-wise sum of what
\* count_sum_invalid_ids_in_range returns for each of the ranges, and it is
\* the same for the ranges in any other order.
C7_SumOfRangesAnyOrder ==
    Aggregated =>
        LET ranges == arg.ranges
            each   == [k \in 1..Len(ranges) |->
                         Outcome(count_sum_invalid_ids_in_range(ranges[k],
                                                                arg.mode))]
        IN  (\A k \in 1..Len(ranges) : ~each[k].panic) =>
                /\ ~ret.panic
                /\ ret.value = PairSum([k \in 1..Len(ranges) |-> each[k].value])
                /\ \A p \in Orders(Len(ranges)) :
                       Outcome(calc_count_sum(
                                   [k \in 1..Len(ranges) |-> ranges[p[k]]],
                                   arg.mode)) = ret

\* C8: a range with start > end holds no ids: invalid_ids_in_range yields
\* nothing, count_sum_invalid_ids_in_range returns (0, 0) without a panic,
\* and id_is_valid is not called.
C8_ReversedRangeIsEmpty ==
    (CountedRange /\ ~WellFormed(arg.range)) =>
        LET it == invalid_ids_in_range(arg.range, arg.mode)
        IN  /\ ~it.panic /\ it.value = << >> /\ it.calls = 0
            /\ ~ret.panic
            /\ ret.value = <<Zero, Zero>>
            /\ calls = 0

\* The range from 2^64 - 1 down to 0, counted: (0, 0), and no id classified.
C8_Witness ==
    /\ CountedRange
    /\ arg.range = IdRange(U64Max, Zero)
    /\ ~ret.panic /\ ret.value = <<Zero, Zero>>
    /\ calls = 0

\* C9: for every sequence of ranges with start <= end and either mode,
\* calc_count_sum returns the exact count and sum of the invalid ids of the
\* ranges, without a panic and without an overflow of u64 in a fold or in
\* the totals.
C9_AggregationTotal ==
    (Aggregated /\ \A k \in 1..Len(arg.ranges) : WellFormed(arg.ranges[k])) =>
        /\ ~ret.panic
        /\ ~calc_count_sum(arg.ranges, arg.mode).overflow
        /\ ret.value = PairSum([k \in 1..Len(arg.ranges) |->
                                  ExactCountSum(arg.ranges[k], arg.mode)])

\* ------------------------------------------------------------------------
\* What is said of the dial
\* ------------------------------------------------------------------------

\* The clicks from num to the first one that lands on 0.
ClicksToZero(num, operation) ==
    IF num = Zero THEN N(100)
    ELSE IF operation = "Left" THEN num
    ELSE Sub(N(100), num)

\* How many of the first k clicks of a rotation from num land on 0: the
\* first such click, and every 100th one after it.
ZerosWithin(num, operation, k) ==
    IF Less(k, ClicksToZero(num, operation)) THEN Zero
    ELSE Add(N(1), Div(Sub(k, ClicksToZero(num, operation)), N(100)))

\* Where the dial points after j clicks from n (small integers).
PositionAfter(n, operation, j) ==
    IF operation = "Left" THEN (n - j) % 100 ELSE (n + j) % 100

\* The same count, click by click.
ZerosByClicks(n, operation, k) ==
    Cardinality({j \in 1..k : PositionAfter(n, operation, j) = 0})

\* Where the dial points after the rotation.
PositionAfterRotation(num, instruction) ==
    LET c == Mod(instruction.argument, N(100))
    IN  IF instruction.operation = "Right" THEN Mod(Add(num, c), N(100))
        ELSE IF Leq(c, num) THEN Sub(num, c)
        ELSE Sub(Add(num, N(100)), c)

RECURSIVE ZerosOfSequence(_, _)
\* The clicks of a sequence of rotations from num that land on 0.
ZerosOfSequence(num, instructions) ==
    IF instructions = << >> THEN Zero
    ELSE CHOOSE total \in
           {Add(ZerosWithin(num, Head(instructions).operation,
                            Head(instructions).argument), rest) :
              rest \in {ZerosOfSequence(
                            PositionAfterRotation(num, Head(instructions)),
                            Tail(instructions))}} : TRUE

Applied == pc = "done" /\ op = "apply"

AppliedMultiple == pc = "done" /\ op = "apply_multiple"

\* C10: from every position 0..=99 and for every count >= 1, apply returns
\* the number of clicks of the rotation, its last click excluded, that land
\* on 0; apply_multiple in Mode::CountZerosDuringRotation returns the
\* number of clicks of the whole sequence that land on 0.  Right 1000 from
\* 50 returns 10, Left 100 and Right 100 from 5 return 1, and a rotation
\* that only ends on 0 returns 0.
C10_DialCountsClicksOnZero ==
    /\ (Applied /\ arg.instruction.argument # Zero) =>
         LET operation == arg.instruction.operation
             count     == arg.instruction.argument
         IN  /\ ~ret.panic
             /\ ret.value.zeros = ZerosWithin(arg.num, operation,
                                              Sub(count, N(1)))
             /\ (Len(count) <= 4 =>
                   ret.value.zeros = N(ZerosByClicks(Val(arg.num), operation,
                                                     Val(count) - 1)))
             /\ (arg.num = N(50) /\ arg.instruction = Instruction("Right", N(1000))
                   => ret.value.zeros = N(10))
             /\ (arg.num = N(5) /\ count = N(100) => ret.value.zeros = N(1))
             /\ (count = ClicksToZero(arg.num, operation)
                   => ret.value.zeros = Zero)
    /\ (/\ AppliedMultiple
        /\ arg.mode = "CountZerosDuringRotation"
        /\ \A k \in 1..Len(arg.instructions) :
               arg.instructions[k].argument # Zero) =>
         /\ ~ret.panic
         /\ ret.value.zeros = ZerosOfSequence(arg.num, arg.instructions)

RECURSIVE PositionAfterSequence(_, _)
\* Where the dial points after a sequence of rotations from num.
PositionAfterSequence(num, instructions) ==
    IF instructions = << >> THEN num
    ELSE PositionAfterSequence(PositionAfterRotation(num, Head(instructions)),
                               Tail(instructions))

AppliedEither == pc = "done" /\ op \in {"apply", "main_apply"}

AppliedMultipleEither ==
    pc = "done" /\ op \in {"apply_multiple", "main_apply_multiple"}

\* C11: from State::new() and after every sequence of apply calls, in any
\* mode, num is in 0..=99, and each apply sets num to (num - count) mod 100
\* for Left and to (num + count) mod 100 for Right: Left 68 from 50 gives
\* 82, Right 1000 from 50 gives 50.
C11_DialNumStaysOnDial ==
    /\ AppliedEither =>
         /\ ~ret.panic
         /\ Less(ret.value.num, N(100))
         /\ ret.value.num = PositionAfterRotation(arg.num, arg.instruction)
         /\ (Len(arg.instruction.argument) <= 4 =>
               Val(ret.value.num) =
                   PositionAfter(Val(arg.num), arg.instruction.operation,
                                 Val(arg.instruction.argument)))
         /\ (arg.num = new /\ arg.instruction = Instruction("Left", N(68))
               => ret.value.num = N(82))
         /\ (arg.num = new /\ arg.instruction = Instruction("Right", N(1000))
               => ret.value.num = N(50))
    /\ (AppliedMultipleEither /\ arg.num = new) =>
         /\ ~ret.panic
         /\ Less(ret.value.num, N(100))
         /\ ret.value.num = PositionAfterSequence(arg.num, arg.instructions)

\* ------------------------------------------------------------------------
\* What is said of the battery lines
\* ------------------------------------------------------------------------

RECURSIVE Subsequences(_, _)
\* The ways to pick k characters of s in their order.
Subsequences(s, k) ==
    IF k = 0 THEN {<< >>}
    ELSE IF Len(s) < k THEN {}
    ELSE {<<Head(s)>> \o t : t \in Subsequences(Tail(s), k - 1)}
             \cup Subsequences(Tail(s), k)

\* The decimal value of a string of digit characters.
DecimalValue(s) == Dec([i \in 1..Len(s) |-> s[i] - 48])

IsDigitLine(line) == \A i \in 1..Len(line) : line[i] \in 48..57

LargestAsked == pc = "done" /\ op = "largest_number"

\* The window of indices (from 0) that position i of k (from 1) may take
\* after the pick before it.
Window(line, k, picks, i) ==
    (IF i = 1 THEN 0 ELSE picks[i - 1] + 1)..(Len(line) - 1 - (k - i))

\* C12: for every line of decimal digits of length >= k, k >= 1,
\* largest_number(k) returns Ok(v), v being the largest decimal value of k
\* characters of the line picked in their order; each position takes the
\* leftmost largest digit of the window that leaves enough characters to
\* its right.  "123456" with k = 2 gives 56.
C12_LargestNumberIsMaximum ==
    (/\ LargestAsked
     /\ IsDigitLine(arg.line)
     /\ arg.digits >= 1 /\ Len(arg.line) >= arg.digits) =>
        LET picks == largest_number(arg.line, arg.digits).picks
        IN  /\ ~ret.panic
            /\ ret.value[1] = "Ok"
            /\ Len(picks) = arg.digits
            /\ ret.value[2] =
                   DecimalValue([i \in 1..arg.digits |-> arg.line[picks[i] + 1]])
            /\ \A t \in Subsequences(arg.line, arg.digits) :
                   Leq(DecimalValue(t), ret.value[2])
            /\ \A i \in 1..arg.digits :
                   /\ picks[i] \in Window(arg.line, arg.digits, picks, i)
                   /\ \A j \in Window(arg.line, arg.digits, picks, i) :
                          /\ arg.line[j + 1] <= arg.line[picks[i] + 1]
                          /\ j < picks[i] =>
                                 arg.line[j + 1] < arg.line[picks[i] + 1]
            /\ (arg.line = DigitLine(<<1,2,3,4,5,6>>) /\ arg.digits = 2
                   => ret.value[2] = N(56))

\* ------------------------------------------------------------------------
\* The divisor loop without its break
\* ------------------------------------------------------------------------

\* The freq values of the loop that divide the digit count.
FreqsChecked(id, mode) ==
    {freq \in 2..max_freq_of(mode, Len(id)) : Len(id) % freq = 0}

\* Every freq in 2..=max_freq evaluated, and the AND of valid_at_freq.
AllFreqsValid(id, mode) ==
    \A freq \in FreqsChecked(id, mode) :
        \E at \in {valid_at_freq(id, Len(id), freq)} :
            ~at.panic /\ ~at.overflow /\ at.value

\* C13: for every id >= 1 and both modes, id_is_valid, which leaves the
\* divisor loop at the first freq whose blocks are all identical, returns
\* what evaluating every freq in 2..=max_freq and taking the AND of all
\* valid_at_freq returns.
C13_BreakIsAndOfAllFreqs ==
    (pc = "done" /\ op = "id_is_valid" /\ arg.id # Zero) =>
        /\ ~ret.panic
        /\ ret.value = AllFreqsValid(arg.id, arg.mode)

\* 1212 in Mode::Multiple: the loop is left at freq = 2, before freq = 4,
\* whose blocks differ.
C13_Witness ==
    /\ Classified("Multiple")
    /\ arg.id = N(1212)
    /\ ~ret.panic /\ ret.value = FALSE
    /\ ~valid_at_freq(arg.id, 4, 2).value
    /\ valid_at_freq(arg.id, 4, 4).value

\* ------------------------------------------------------------------------
\* The zero counter of the dial
\* ------------------------------------------------------------------------

\* zeros in the Right arm of apply when `if self.num == 0` is reached:
\* `self.num / 100` of the sum as u32 holds it.
ZerosBeforeDecrement(num, count) == Div(u32_add(num, count).value, N(100))

\* The Right arm decrements zeros: the dial has come to 0.
Decrements(num, count) == Mod(u32_add(num, count).value, N(100)) = Zero

\* C14: in apply the u32 counter zeros never underflows: from every
\* position 0..=99 and for every instruction, a count of 0 included,
\* `zeros -= 1` in the Right arm runs only with zeros >= 1, and the count
\* returned has not wrapped around.
C14_ZerosNeverUnderflows ==
    (Applied /\ arg.instruction.operation = "Right") =>
        /\ Decrements(arg.num, arg.instruction.argument) =>
               ZerosBeforeDecrement(arg.num, arg.instruction.argument) # Zero
        /\ ~ret.panic =>
               Leq(ret.value.zeros,
                   Add(Div(arg.instruction.argument, N(100)), N(1)))

=============================================================================
